---- MODULE Spec2Model ----
(***************************************************************************)
(* Model of the deterministic test selector of selector-service            *)
(* (app/selector.py): the call graph, the touch extractor, the test        *)
(* classifier, the bounded reverse BFS, the confidence scorer and the      *)
(* select_tests / select_tests_hybrid orchestrators.                       *)
(*                                                                         *)
(* A Python str is modelled as a sequence of one-character strings, so     *)
(* that the classifier's split / lower / substring tests are computed and  *)
(* not assumed.  A Python set is a TLA+ set; the order in which the        *)
(* interpreter iterates a set is not fixed by the program: it is a         *)
(* function of the process's string-hash seed (hashSeed below) in the      *)
(* selection model and a free choice at every loop in the BFS model.       *)
(***************************************************************************)
EXTENDS Integers, Sequences, FiniteSets, TLC

VARIABLES
    \* ---- inputs of one selection request (selector.py:233-237)
    changed_files,   \* list of changed-file records
    call_graph,      \* list of [caller, callee] edges
    allowed_tests,   \* list of identifiers, or None
    \* ---- the interpreter process
    hashSeed,        \* decides the iteration order of every set of str
    \* ---- what the caller has observed
    pc,              \* "start", "called1", "called2"
    prev,            \* the call before the last one (or NoCall)
    cur,             \* the last call and what it returned (or NoCall)
    \* ---- locals of one run of CallGraph.find_all_callers_bfs
    start_methods, max_depth, visited, depth_map, queue,
    bfs_pc,          \* "seed" (before line 61), "loop" (line 67), "done" (line 82)
    enqueued,        \* history: every queue.append so far, in order
    iterations       \* history: the number of loop iterations (popleft) so far

vars == <<changed_files, call_graph, allowed_tests, hashSeed, pc, prev, cur,
          start_methods, max_depth, visited, depth_map, queue, bfs_pc, enqueued,
          iterations>>

None == "None"

----------------------------------------------------------------------------
(* Python str helpers *)

Range(f) == {f[i] : i \in DOMAIN f}

UpperChars == <<"A","B","C","D","E","F","G","H","I","J","K","L","M",
                "N","O","P","Q","R","S","T","U","V","W","X","Y","Z">>
LowerChars == <<"a","b","c","d","e","f","g","h","i","j","k","l","m",
                "n","o","p","q","r","s","t","u","v","w","x","y","z">>

\* str.lower() on the upper-case letters
LowerOfUpper ==
    [c \in Range(UpperChars) |->
        LowerChars[CHOOSE i \in 1..Len(UpperChars) : UpperChars[i] = c]]

\* str.lower() on one character
LowerChar(c) == IF c \in DOMAIN LowerOfUpper THEN LowerOfUpper[c] ELSE c

\* str.lower()
Lower(s) == [i \in 1..Len(s) |-> LowerChar(s[i])]

\* pattern in s
Contains(s, pattern) ==
    \E i \in 0..(Len(s) - Len(pattern)) :
        \A j \in 1..Len(pattern) : s[i + j] = pattern[j]

\* s.startswith(prefix)
StartsWith(s, prefix) ==
    /\ Len(s) >= Len(prefix)
    /\ \A j \in 1..Len(prefix) : s[j] = prefix[j]

\* index of the first '#' of s (0 when there is none)
FirstHash(s) ==
    IF \E i \in 1..Len(s) : s[i] = "#"
    THEN CHOOSE i \in 1..Len(s) : s[i] = "#" /\ \A j \in 1..(i - 1) : s[j] # "#"
    ELSE 0

\* method.split('#', 1) as <<class_name, method_name>>
SplitHash(s) ==
    <<SubSeq(s, 1, FirstHash(s) - 1), SubSeq(s, FirstHash(s) + 1, Len(s))>>

PatTest == <<"t","e","s","t">>
PatSpec == <<"s","p","e","c">>

\* a variant that forgets the method-name rule
is_test_method_class_only(method) ==
    IF method = <<>> \/ FirstHash(method) = 0 THEN FALSE
    ELSE LET class_name == SplitHash(method)[1]
         IN  \E pattern \in {PatTest, PatSpec} : Contains(Lower(class_name), pattern)

\* a variant that compares without lower-casing
is_test_method_case_sensitive(method) ==
    IF method = <<>> \/ FirstHash(method) = 0 THEN FALSE
    ELSE LET class_name  == SplitHash(method)[1]
             method_name == SplitHash(method)[2]
         IN  \/ \E pattern \in {PatTest, PatSpec} : Contains(class_name, pattern)
             \/ StartsWith(method_name, PatTest)

\* CallGraph.is_test_method
is_test_method(method) ==
    IF method = <<>> \/ FirstHash(method) = 0 THEN FALSE
    ELSE LET class_name  == SplitHash(method)[1]
             method_name == SplitHash(method)[2]
         IN  \/ \E pattern \in {PatTest, PatSpec} : Contains(Lower(class_name), pattern)
             \/ StartsWith(Lower(method_name), PatTest)

----------------------------------------------------------------------------
(* CallGraph *)

Edge(a, b) == [caller |-> a, callee |-> b]

\* a variant that keeps only the last value of a key
DictAdd_overwrite(d, key, value) ==
    [k \in DOMAIN d \cup {key} |-> IF k = key THEN {value} ELSE d[k]]

\* d[key].add(value) on a defaultdict(set)
DictAdd(d, key, value) ==
    IF key \in DOMAIN d
    THEN [d EXCEPT ![key] = @ \cup {value}]
    ELSE [k \in DOMAIN d \cup {key} |-> IF k = key THEN {value} ELSE d[k]]

EmptyDict == [k \in {} |-> {}]

\* CallGraph.__init__: the loop over the edge list
RECURSIVE CallGraph(_)
CallGraph(call_graph_edges) ==
    IF call_graph_edges = <<>>
    THEN [forward |-> EmptyDict, reverse |-> EmptyDict]
    ELSE LET n    == Len(call_graph_edges)
             g    == CallGraph(SubSeq(call_graph_edges, 1, n - 1))
             edge == call_graph_edges[n]
         IN  [forward |-> DictAdd(g.forward, edge.caller, edge.callee),
              reverse |-> DictAdd(g.reverse, edge.callee, edge.caller)]

\* CallGraph.get_callers
get_callers(graph, method) ==
    IF method \in DOMAIN graph.reverse THEN graph.reverse[method] ELSE {}

\* CallGraph.get_callees
get_callees(graph, method) ==
    IF method \in DOMAIN graph.forward THEN graph.forward[method] ELSE {}

----------------------------------------------------------------------------
(* CallGraph.find_all_callers_bfs, one loop iteration at a time.           *)
(* A BFS state is [visited, depth_map, queue]; queue holds <<method,       *)
(* depth>> pairs.  The order in which a set is iterated is a parameter.    *)

DictPut(d, key, value) ==
    [k \in DOMAIN d \cup {key} |-> IF k = key THEN value ELSE d[k]]

BfsEmpty == [visited |-> {}, depth_map |-> [k \in {} |-> 0], queue |-> <<>>]

\* the body of both for loops: visit `method` at `depth` without looking at visited
bfs_visit_unchecked(st, method, depth) ==
    [visited   |-> st.visited \cup {method},
     depth_map |-> DictPut(st.depth_map, method, depth),
     queue     |-> Append(st.queue, <<method, depth>>)]

\* lines 62-65 and 77-80: visit `method` at `depth` unless it is visited already
bfs_visit(st, method, depth) ==
    IF method \notin st.visited
    THEN [visited   |-> st.visited \cup {method},
          depth_map |-> DictPut(st.depth_map, method, depth),
          queue     |-> Append(st.queue, <<method, depth>>)]
    ELSE st

\* a for loop over `methods` (a set, in the order `order`), visiting each at `depth`
RECURSIVE bfs_visit_all(_, _, _)
bfs_visit_all(st, order, depth) ==
    IF order = <<>> THEN st
    ELSE bfs_visit_all(bfs_visit(st, Head(order), depth), Tail(order), depth)

\* lines 56-65: the queue is seeded with the start methods at depth 0
bfs_seed(start_order) == bfs_visit_all(BfsEmpty, start_order, 0)

\* a variant whose depth test is off by one (expands nodes at max_depth too)
bfs_expands_off_by_one(current_depth, maxDepth) == current_depth <= maxDepth

\* line 70, negated: the popped node is expanded
bfs_expands(current_depth, maxDepth) == current_depth < maxDepth

\* a variant that takes the newest queue entry (pop() for popleft())
bfs_pop_lifo(q) ==
    [method |-> q[Len(q)][1], depth |-> q[Len(q)][2], rest |-> SubSeq(q, 1, Len(q) - 1)]

\* line 68: current_method, current_depth = queue.popleft()
bfs_pop(q) ==
    [method |-> Head(q)[1], depth |-> Head(q)[2], rest |-> Tail(q)]

\* lines 68-80: one iteration of the while loop; callers_order is the order in
\* which `for caller in callers` runs over get_callers(current_method)
bfs_iter(st, maxDepth, callers_order) ==
    LET current == bfs_pop(st.queue)
        popped  == [st EXCEPT !.queue = current.rest]
    IN  IF bfs_expands(current.depth, maxDepth)
        THEN bfs_visit_all(popped, callers_order, current.depth + 1)
        ELSE popped

\* every order in which a set can be iterated
Orders(S) ==
    {o \in [1..Cardinality(S) -> S] : \A i, j \in DOMAIN o : i # j => o[i] # o[j]}

----------------------------------------------------------------------------
(* The identifiers the model's inputs are built from *)

S_m     == <<"S","#","m">>                      \* a production method
S_init  == <<"S","#","<","i","n","i","t",">">>  \* f"{fqc}#<init>" of class S
S_S     == <<"S","#","S">>                      \* f"{fqc}#{class_name}" of class S
U_h     == <<"U","#","h">>                      \* a production helper
ATest_a == <<"A","T","e","s","t","#","a">>      \* a test by its class name
B_testB == <<"B","#","t","e","s","t","B">>      \* a test by its method name
CSpec_c == <<"C","S","p","e","c","#","c">>      \* a test by its class name (spec)
XTest_x == <<"X","T","e","s","t","#","x">>      \* a test nothing calls from

\* the depth bound find_affected_tests passes to the BFS
AffectedMaxDepth == 15

\* a caller chain K#k -> S#m, K#kk -> K#k, ... as long as the depth bound
ChainNode(i) == <<"K","#">> \o [j \in 1..i |-> "k"]

----------------------------------------------------------------------------
(* Python values *)

Min(a, b) == IF a <= b THEN a ELSE b
Max(a, b) == IF a >= b THEN a ELSE b

\* d.get(key, default) on a dict modelled as a record
Get(d, key, default) == IF key \in DOMAIN d THEN d[key] ELSE default

\* bool(v) for v a str, a list or None
Truthy(v) == v # None /\ v # <<>>

\* f"{v}" for v a str or None
Format(v) == IF v = None THEN <<"N","o","n","e">> ELSE v

\* a slice one element too long
SliceToOffByOne(lst, n) == SubSeq(lst, 1, Min(Max(n, 0) + 1, Len(lst)))

\* lst[:n]
SliceTo(lst, n) ==
    IF n >= 0 THEN SubSeq(lst, 1, Min(n, Len(lst)))
    ELSE SubSeq(lst, 1, Max(Len(lst) + n, 0))

\* An Optional[set]: {} is None, {S} is the set S
NoneSet == {}
SomeSet(S) == {S}
TheSet(opt) == CHOOSE S \in opt : TRUE
\* bool(opt)
TruthySet(opt) == opt # NoneSet /\ TheSet(opt) # {}

----------------------------------------------------------------------------
(* The iteration order of a set of str.  CPython orders a set by the hashes *)
(* of its elements, and the hash of a str depends on the process's hash     *)
(* seed: within one process the same set is iterated in the same order,     *)
(* another process may iterate it in another order.  hashSeed is a          *)
(* permutation; identifiers are ordered by the permuted bucket they fall    *)
(* in, then by their place in AllIds.                                       *)

AllIds ==
    <<S_m, S_init, S_S, U_h, ATest_a, B_testB, CSpec_c, XTest_x>>
        \o [i \in 1..(AffectedMaxDepth + 1) |-> ChainNode(i)]

HashSeeds == {<<1, 2, 3>>, <<2, 3, 1>>, <<3, 1, 2>>}

IdIndex(id) == CHOOSE i \in 1..Len(AllIds) : AllIds[i] = id

HashKey(id, seed) ==
    seed[(IdIndex(id) % Len(seed)) + 1] * (Len(AllIds) + 1) + IdIndex(id)

\* list(S), and the order of `for x in S`, in a process whose hash seed is `seed`
RECURSIVE set_iter(_, _)
set_iter(S, seed) ==
    IF S = {} THEN <<>>
    ELSE LET m == CHOOSE x \in S : \A y \in S : HashKey(x, seed) <= HashKey(y, seed)
         IN  <<m>> \o set_iter(S \ {m}, seed)

----------------------------------------------------------------------------
(* CallGraph.find_all_callers_bfs as one call *)

\* lines 67-80: the while loop
RECURSIVE bfs_loop(_, _, _, _)
bfs_loop(graph, st, maxDepth, seed) ==
    IF st.queue = <<>> THEN st
    ELSE bfs_loop(graph,
                  bfs_iter(st, maxDepth,
                           set_iter(get_callers(graph, bfs_pop(st.queue).method), seed)),
                  maxDepth, seed)

\* CallGraph.find_all_callers_bfs: [visited, depth_map] (the queue is empty)
find_all_callers_bfs(graph, startMethods, maxDepth, seed) ==
    bfs_loop(graph, bfs_seed(set_iter(startMethods, seed)), maxDepth, seed)

----------------------------------------------------------------------------
(* extract_touched_methods *)

InitSuffix == <<"#","<","i","n","i","t",">">>

\* one iteration of the loop over changed_files, without the constructor patterns
file_touched_methods_only(cf) ==
    LET methods == Get(cf, "touched_methods", <<>>)
    IN  {Get(methods[i], "fqn", None) :
            i \in {j \in DOMAIN methods : Truthy(Get(methods[j], "fqn", None))}}

\* lines 117-128: what one changed file adds to touched_methods
file_touched(cf) ==
    LET methods  == Get(cf, "touched_methods", <<>>)
        explicit == {Get(methods[i], "fqn", None) :
                        i \in {j \in DOMAIN methods :
                                  Truthy(Get(methods[j], "fqn", None))}}
        fqc      == Get(cf, "fully_qualified_class", None)
    IN  IF Truthy(fqc) /\ Get(cf, "lang", None) = "java"
        THEN explicit \cup {fqc \o InitSuffix,
                            fqc \o <<"#">> \o Format(Get(cf, "class_name", <<>>))}
        ELSE explicit

\* extract_touched_methods
extract_touched_methods(changedFiles) ==
    UNION {file_touched(changedFiles[i]) : i \in DOMAIN changedFiles}

----------------------------------------------------------------------------
(* find_affected_tests *)

MaxOf(S) == CHOOSE x \in S : \A y \in S : y <= x

\* _calculate_depth_distribution, keyed by the depth n of "depth_<n>"
calculate_depth_distribution(testMethods, depthMap) ==
    [d \in {depthMap[t] : t \in testMethods} |->
        Cardinality({t \in testMethods : depthMap[t] = d})]

\* a variant that ignores allowed_tests
filter_allowed_ignored(testMethods, allowedSet) == testMethods

\* lines 170-173
filter_allowed(testMethods, allowedSet) ==
    IF TruthySet(allowedSet) THEN testMethods \cap TheSet(allowedSet) ELSE testMethods

\* a variant that keeps every reached method, test or not
test_methods_unfiltered(allCallers) == allCallers

\* line 166
test_methods_of(allCallers) == {method \in allCallers : is_test_method(method)}

\* find_affected_tests: [tests, metadata]
find_affected_tests(changedFiles, callGraph, allowedSet, seed) ==
    LET touched_methods == extract_touched_methods(changedFiles)
    IN  IF touched_methods = {}
        THEN [tests    |-> {},
              metadata |-> [reason |-> "no_touched_methods", touched_methods_count |-> 0]]
        ELSE LET graph        == CallGraph(callGraph)
                 bfs          == find_all_callers_bfs(graph, touched_methods,
                                                      AffectedMaxDepth, seed)
                 test_methods == filter_allowed(test_methods_of(bfs.visited), allowedSet)
             IN  [tests    |-> test_methods,
                  metadata |-> [touched_methods_count |-> Cardinality(touched_methods),
                                total_callers_count   |-> Cardinality(bfs.visited),
                                test_methods_count    |-> Cardinality(test_methods),
                                max_depth_used        |->
                                    IF DOMAIN bfs.depth_map # {}
                                    THEN MaxOf(Range(bfs.depth_map)) ELSE 0,
                                depth_distribution    |->
                                    calculate_depth_distribution(test_methods,
                                                                 bfs.depth_map)]]

----------------------------------------------------------------------------
(* build_reachability and the default depth bound *)

\* line 43: max_depth: int = 10
DefaultMaxDepth == 10

\* line 230: reason_edges[:200]
ReasonEdgesLimit == 200

\* graph.find_all_callers_bfs(start_methods), max_depth left to its default
find_all_callers_bfs_default(graph, startMethods, seed) ==
    find_all_callers_bfs(graph, startMethods, DefaultMaxDepth, seed)

\* build_reachability: [reached_methods, reason_edges]
build_reachability(changedFiles, callGraph, seed) ==
    LET touched_methods == extract_touched_methods(changedFiles)
        graph           == CallGraph(callGraph)
        all_callers     == find_all_callers_bfs_default(graph, touched_methods, seed).visited
        kept            == SelectSeq(callGraph,
                                     LAMBDA edge : /\ edge.caller \in all_callers
                                                   /\ edge.callee \in all_callers)
    IN  [reached_methods |-> all_callers,
         reason_edges    |-> SliceTo([i \in DOMAIN kept |-> <<kept[i].caller, kept[i].callee>>],
                                     ReasonEdgesLimit)]

----------------------------------------------------------------------------
(* _calculate_confidence.  A confidence is an integer number of hundredths; *)
(* the factors are integers in thousandths and the weighted sum is kept as  *)
(* a fraction over 1000 * num_changed_lines * 100.                          *)

\* lines 351-358: the lines one hunk counts for
hunk_lines(h) ==
    IF "end" \in DOMAIN h /\ "start" \in DOMAIN h THEN h["end"] - h["start"] + 1
    ELSE IF "new_lines" \in DOMAIN h THEN h["new_lines"]
    ELSE IF "old_lines" \in DOMAIN h THEN h["old_lines"]
    ELSE 1

RECURSIVE SumSeq(_)
SumSeq(q) == IF q = <<>> THEN 0 ELSE Head(q) + SumSeq(Tail(q))

\* lines 348-358
changed_lines(changedFiles) ==
    SumSeq([i \in DOMAIN changedFiles |->
              LET hunks == Get(changedFiles[i], "hunks", <<>>)
              IN  SumSeq([j \in DOMAIN hunks |-> hunk_lines(hunks[j])])])

\* line 361: size_factor in thousandths, times n (n >= 1)
size_factor_times_n(n) ==
    IF n <= 50 THEN 1000 * n
    ELSE IF 10 * 50 <= 3 * n THEN 300 * n
    ELSE 50000

\* lines 364-371: selection_factor in thousandths
selection_factor(selected_count) ==
    IF selected_count = 0 THEN 200
    ELSE IF selected_count <= 10 THEN 1000
    ELSE IF selected_count <= 50 THEN 800
    ELSE 600

\* line 375: depth_factor in thousandths
depth_factor(maxDepthUsed) == Max(400, Min(1000, 1000 - 100 * maxDepthUsed))

\* round(x, 2) works on the binary float the sum was computed into.  Where the
\* exact sum lies half-way between two hundredths the float lies a little above
\* or below it; these are the <<size_factor, selection_factor, depth_factor>>
\* (thousandths, coverage_factor 0.7) whose float sum rounds up.
FloatTieRoundsUp ==
    {<<300, 200, 400>>, <<300, 200, 800>>, <<300, 200, 1000>>, <<300, 800, 800>>,
     <<300, 800, 1000>>, <<400, 200, 500>>, <<400, 200, 700>>, <<400, 200, 900>>,
     <<400, 600, 900>>, <<400, 800, 700>>, <<400, 800, 900>>, <<400, 1000, 500>>,
     <<400, 1000, 700>>, <<400, 1000, 900>>, <<500, 1000, 400>>, <<500, 1000, 1000>>,
     <<1000, 200, 500>>, <<1000, 200, 700>>, <<1000, 200, 900>>, <<1000, 600, 700>>,
     <<1000, 600, 900>>, <<1000, 800, 500>>, <<1000, 800, 700>>, <<1000, 800, 900>>}

\* line 387: round(x, 2) of the fraction num / den, in hundredths
round_hundredths(num, den, tieUp) ==
    LET q == (100 * num) \div den
        r == (100 * num) % den
    IN  IF 2 * r < den THEN q
        ELSE IF 2 * r > den THEN q + 1
        ELSE IF tieUp THEN q + 1 ELSE q

\* a variant that scores an empty touched set like any other
confidence_no_touched_scored == 10 + 20

\* a variant that reports the empty touched set below zero
confidence_no_touched_negative == 0 - 10

\* line 342
confidence_no_touched == 10

\* a variant that scores the coverage term alone
calculate_confidence_coverage_only(changedFiles, graphMetadata, selected_count) ==
    IF Get(graphMetadata, "touched_methods_count", 0) = 0 THEN confidence_no_touched
    ELSE IF Get(graphMetadata, "total_callers_count", 0) > 0 THEN 28 ELSE 12

\* _calculate_confidence
calculate_confidence(changedFiles, graphMetadata, selected_count) ==
    LET touched_count == Get(graphMetadata, "touched_methods_count", 0)
    IN  IF touched_count = 0 THEN confidence_no_touched
        ELSE
        LET total_callers == Get(graphMetadata, "total_callers_count", 0)
            coverage      == IF total_callers > 0 THEN 700 ELSE 300
            n             == Max(changed_lines(changedFiles), 1)
            sizeN         == size_factor_times_n(n)
            selection     == selection_factor(selected_count)
            depth         == depth_factor(Get(graphMetadata, "max_depth_used", 0))
            \* confidence = sum / (100000 * n)
            sum           == 40 * coverage * n + 25 * sizeN + 20 * selection * n
                                + 15 * depth * n
            floored       == IF selected_count > 0 /\ total_callers > 0
                             THEN Max(sum, 50000 * n) ELSE sum
            capped        == Min(100000 * n, floored)
        \* every term of the sum is a multiple of 500: the fraction is reduced
        \* by it to keep the products small
        IN  round_hundredths(capped \div 500, 200 * n,
                             <<sizeN \div n, selection, depth>> \in FloatTieRoundsUp)

----------------------------------------------------------------------------
(* select_tests *)

\* An explanation text is a sequence of pieces (an f-string's parts)
ExplainDirect == <<"Test directly calls changed methods">>
ExplainTransitive == <<"Test transitively calls changed methods through call chain">>

\* _generate_test_explanation
generate_test_explanation(test_method, touched_methods, graph) ==
    IF \E touched \in touched_methods : touched \in get_callees(graph, test_method)
    THEN ExplainDirect
    ELSE ExplainTransitive

\* a variant that truncates after sorting the affected tests in a fixed order
truncate_sorted(affected_tests, max_tests, seed) ==
    SliceTo(set_iter(affected_tests, <<1, 2, 3>>), max_tests)

\* line 280: list(affected_tests)[:max_tests]
truncate(affected_tests, max_tests, seed) ==
    SliceTo(set_iter(affected_tests, seed), max_tests)

\* select_tests: [selected_tests, explanations, confidence, metadata]
select_tests(changedFiles, callGraph, allowedTests, max_tests, seed) ==
    LET allowed_tests_set == IF Truthy(allowedTests)
                             THEN SomeSet(Range(allowedTests)) ELSE NoneSet
        affected       == find_affected_tests(changedFiles, callGraph,
                                              allowed_tests_set, seed)
        selected_tests == truncate(affected.tests, max_tests, seed)
        graph          == CallGraph(callGraph)
        touched_methods == extract_touched_methods(changedFiles)
        explanations   ==
            IF callGraph # <<>>
            THEN [test \in Range(selected_tests) |->
                    generate_test_explanation(test, touched_methods, graph)]
            ELSE [test \in {} |-> <<>>]
        confidence     == calculate_confidence(changedFiles, affected.metadata,
                                               Len(selected_tests))
    IN  [selected_tests |-> selected_tests,
         explanations   |-> explanations,
         confidence     |-> confidence,
         metadata       |->
            [selection_method   |-> "graph_based_traversal",
             graph_analysis     |-> affected.metadata,
             reachability_stats |->
                [total_affected_methods |->
                     Get(affected.metadata, "total_callers_count", 0),
                 affected_tests |-> Cardinality(affected.tests),
                 selected_tests |-> Len(selected_tests),
                 max_depth      |-> Get(affected.metadata, "max_depth_used", 0)]]]

----------------------------------------------------------------------------
(* select_tests_hybrid.  llm_adapter is NoAdapter (Python's None) or an      *)
(* adapter, modelled by what its select(payload) does:                       *)
(*   [outcome |-> "raises"]           it raises an Exception                 *)
(*   [outcome |-> "not_four_parts"]   it returns a value that does not       *)
(*                                    unpack into four names                 *)
(*   [outcome |-> "malformed_tests", explanations, confidence, metadata]     *)
(*                                    it returns four parts, the first None  *)
(*   [outcome |-> "returns", tests, explanations, confidence, metadata]      *)
(* The hybrid confidence is not rounded: it is a fraction <<num, den>> of    *)
(* hundredths.                                                               *)

NoAdapter == [outcome |-> "None"]

NoExplanations == [t \in {} |-> <<>>]

\* model_adapter.py, ExternalLLMAdapter.select: what the call gives for each
\* way the HTTP exchange can end.  response.kind is "not_configured",
\* "request_exception" (with the exception's class: Timeout, ConnectionError),
\* "http_error" (status >= 400), "parse_failed" or "parsed" (with the parsed
\* object, whose missing or falsy entries get the defaults of lines 105-108).
ExternalLLMAdapter_select(response) ==
    IF response.kind = "not_configured" THEN [outcome |-> "raises"]
    ELSE IF response.kind = "request_exception"
    THEN [outcome |-> "returns", tests |-> <<>>, explanations |-> NoExplanations,
          confidence |-> 30,
          metadata |-> [mode |-> "external", error |-> <<"network:", response.class>>]]
    ELSE IF response.kind = "http_error"
    THEN [outcome |-> "returns", tests |-> <<>>, explanations |-> NoExplanations,
          confidence |-> 30,
          metadata |-> [mode |-> "external", error |-> <<"http:", response.status>>]]
    ELSE IF response.kind = "parse_failed"
    THEN [outcome |-> "returns", tests |-> <<>>, explanations |-> NoExplanations,
          confidence |-> 30,
          metadata |-> [mode |-> "external", error |-> <<"parse-failed">>]]
    ELSE [outcome |-> "returns",
          tests        |-> Get(response.parsed, "selected_tests", <<>>),
          explanations |-> Get(response.parsed, "explanations", NoExplanations),
          confidence   |-> LET c == Get(response.parsed, "confidence", 0)
                           IN  IF c = 0 THEN 50 ELSE c,
          metadata     |-> [mode |-> "external", error |-> <<>>]]

\* lines 431-451: what the llm_* locals hold after the try block.  The
\* unpacking at line 447 assigns all four names or none.
llm_result(llm_adapter) ==
    IF llm_adapter # NoAdapter /\ llm_adapter.outcome = "returns"
    THEN [tests        |-> llm_adapter.tests,
          explanations |-> llm_adapter.explanations,
          confidence   |-> llm_adapter.confidence]
    ELSE IF llm_adapter # NoAdapter /\ llm_adapter.outcome = "malformed_tests"
    THEN [tests        |-> None,
          explanations |-> llm_adapter.explanations,
          confidence   |-> llm_adapter.confidence]
    ELSE [tests |-> <<>>, explanations |-> NoExplanations, confidence |-> 0]

\* a variant that skips the truncation of the union
hybrid_union_untruncated(det_tests, llm_tests, max_tests, seed) ==
    set_iter(Range(det_tests) \cup Range(llm_tests), seed)

\* a variant that forgets the advisory candidates
hybrid_union_det_only(det_tests, llm_tests, max_tests, seed) == det_tests

\* lines 454-462: union_tests
hybrid_union(det_tests, llm_tests, max_tests, seed) ==
    LET det_tests_set == Range(det_tests)
        union_tests   == set_iter(det_tests_set \cup Range(llm_tests), seed)
    IN  IF Len(union_tests) > max_tests
        THEN SliceTo(det_tests \o SelectSeq(llm_tests, LAMBDA t : t \notin det_tests_set),
                     max_tests)
        ELSE union_tests

\* lines 465-474: combined_explanations
hybrid_explanations(det_explanations, llm_explanations) ==
    [test \in DOMAIN det_explanations \cup DOMAIN llm_explanations |->
        IF test \notin DOMAIN llm_explanations THEN det_explanations[test]
        ELSE IF test \in DOMAIN det_explanations
        THEN <<"Deterministic: ">> \o det_explanations[test]
                 \o <<"; LLM: ">> \o llm_explanations[test]
        ELSE <<"LLM: ">> \o llm_explanations[test]]

\* lines 478-487: hybrid_confidence as <<num, den>>, in hundredths
hybrid_confidence(det_tests, llm_tests, union_tests, det_confidence, llm, llm_adapter) ==
    LET overlap == Cardinality(Range(det_tests) \cap Range(llm_tests))
        den     == Max(Len(union_tests), 1)
        base    == Max(det_confidence, llm.confidence)
    IN  IF llm_adapter # NoAdapter
        THEN <<Min(100 * den, base * den + 20 * overlap), den>>
        ELSE <<det_confidence, 1>>

\* lines 454-518: what select_tests_hybrid returns, given the deterministic
\* result det and the llm_* locals llm.  set(llm_tests) at line 455 raises a
\* TypeError when llm_tests is None; nothing catches it.
hybrid_result(det, llm, max_tests, llm_adapter, seed) ==
    IF llm.tests = None THEN [raised |-> "TypeError"]
    ELSE
    LET union_tests == hybrid_union(det.selected_tests, llm.tests, max_tests, seed)
    IN  [raised         |-> None,
         selected_tests |-> union_tests,
         explanations   |-> hybrid_explanations(det.explanations, llm.explanations),
         confidence     |-> hybrid_confidence(det.selected_tests, llm.tests, union_tests,
                                              det.confidence, llm, llm_adapter),
         metadata       |->
            [selection_method |-> "hybrid_deterministic_llm",
             deterministic    |-> [tests_count |-> Len(det.selected_tests),
                                   confidence  |-> det.confidence,
                                   metadata    |-> det.metadata],
             llm              |-> [tests_count |-> Len(llm.tests),
                                   confidence  |-> llm.confidence],
             union            |-> [total_tests   |-> Len(union_tests),
                                   overlap_count |->
                                       Cardinality(Range(det.selected_tests)
                                                   \cap Range(llm.tests))]]]

\* select_tests_hybrid: [selected_tests, explanations, confidence, metadata]
select_tests_hybrid(changedFiles, callGraph, allowedTests, max_tests, llm_adapter, seed) ==
    hybrid_result(select_tests(changedFiles, callGraph, allowedTests, max_tests, seed),
                  llm_result(llm_adapter), max_tests, llm_adapter, seed)

----------------------------------------------------------------------------
(* main.py: the /select-tests endpoint.  LLM_MODE and HYBRID_LLM_BACKEND     *)
(* are environment strings; an adapter's exchange with its service ends in   *)
(* one of the ways listed at ExternalLLMAdapter_select.  A response is       *)
(* [status_code, body] or [status_code, detail].                             *)

ModeMock   == <<"m","o","c","k">>
ModeHybrid == <<"h","y","b","r","i","d">>
ModeRemote == <<"r","e","m","o","t","e">>
ModeOpenai == <<"o","p","e","n","a","i">>
ModeOpenaiCompatible == ModeOpenai \o <<"-","c","o","m","p","a","t","i","b","l","e">>
ModeGemini == <<"g","e","m","i","n","i">>
ModeGoogle == <<"g","o","o","g","l","e">>

\* model_adapter.py, MockLLM.select on the payload of select_tests_hybrid,
\* which has no 'test_mapping'
MockLLM_select(changedFiles) ==
    IF changedFiles = <<>>
    THEN [outcome |-> "returns", tests |-> <<>>, explanations |-> NoExplanations,
          confidence |-> 50, metadata |-> [reason |-> "no changes"]]
    ELSE [outcome |-> "returns", tests |-> <<>>, explanations |-> NoExplanations,
          confidence |-> 40, metadata |-> [mode |-> "mock"]]

\* model_adapter.py, GeminiAdapter.select, for each way the exchange can end
GeminiAdapter_select(response) ==
    IF response.kind = "not_configured" THEN [outcome |-> "raises"]
    ELSE IF response.kind = "request_exception"
    THEN [outcome |-> "returns", tests |-> <<>>, explanations |-> NoExplanations,
          confidence |-> 30,
          metadata |-> [mode |-> "external", provider |-> "gemini",
                        error |-> <<"network:", response.class>>]]
    ELSE IF response.kind = "http_error"
    THEN [outcome |-> "returns", tests |-> <<>>, explanations |-> NoExplanations,
          confidence |-> 30,
          metadata |-> [mode |-> "external", provider |-> "gemini",
                        error |-> <<"http:", response.status>>]]
    ELSE IF response.kind = "parse_failed"
    THEN [outcome |-> "returns", tests |-> <<>>, explanations |-> NoExplanations,
          confidence |-> 30,
          metadata |-> [mode |-> "external", provider |-> "gemini",
                        error |-> <<"parse-failed">>]]
    ELSE [outcome |-> "returns",
          tests        |-> Get(response.parsed, "selected_tests", <<>>),
          explanations |-> Get(response.parsed, "explanations", NoExplanations),
          confidence   |-> Get(response.parsed, "confidence", 50),
          metadata     |-> [mode |-> "external", provider |-> "gemini"]]

\* main.py:80-92: the adapter of hybrid mode, by what its select does
hybrid_llm_adapter(backend_env, response, changedFiles) ==
    LET llm_backend == Lower(backend_env)
    IN  IF llm_backend = ModeMock THEN MockLLM_select(changedFiles)
        ELSE IF llm_backend \in {ModeOpenai, ModeOpenaiCompatible}
        THEN ExternalLLMAdapter_select(response)
        ELSE IF llm_backend \in {ModeGemini, ModeGoogle}
        THEN GeminiAdapter_select(response)
        ELSE MockLLM_select(changedFiles)

\* the try block came to its end with this four-part result
Completed(result) ==
    [raised |-> None,
     body   |-> [selected_tests |-> result.selected_tests,
                 explanations   |-> result.explanations,
                 confidence     |-> result.confidence,
                 metadata       |-> result.metadata]]

\* main.py:95-102: select_tests_hybrid returned or raised
hybrid_attempt(result) ==
    IF result.raised # None THEN [raised |-> result.raised, message |-> [text |-> "object is not iterable"]]
    ELSE Completed(result)

\* main.py:107 and 112: adapter.select(req.dict()) returned or raised
adapter_attempt(adapter) ==
    IF adapter.outcome = "raises"
    THEN [raised |-> "RuntimeError", message |-> [text |-> "adapter not configured"]]
    ELSE Completed([selected_tests |-> adapter.tests,
                    explanations   |-> adapter.explanations,
                    confidence     |-> adapter.confidence,
                    metadata       |-> adapter.metadata])

\* main.py:61-114: the try block up to the response
endpoint_attempt(mode_env, backend_env, response, changedFiles, callGraph, allowedTests, max_tests, seed) ==
    LET mode == Lower(mode_env)
    IN  IF mode = ModeMock
        THEN Completed(select_tests(changedFiles, callGraph, allowedTests, max_tests, seed))
        ELSE IF mode = ModeHybrid
        THEN hybrid_attempt(
                 select_tests_hybrid(changedFiles, callGraph, allowedTests, max_tests,
                                     hybrid_llm_adapter(backend_env, response, changedFiles),
                                     seed))
        ELSE IF mode \in {ModeRemote, ModeOpenai, ModeOpenaiCompatible}
        THEN adapter_attempt(ExternalLLMAdapter_select(response))
        ELSE IF mode \in {ModeGemini, ModeGoogle}
        THEN adapter_attempt(GeminiAdapter_select(response))
        ELSE [raised      |-> "HTTPException",
              status_code |-> 400,
              message     |-> [text |-> "Unsupported LLM_MODE ", mode |-> mode]]

\* str(e): the message of a built-in exception; for the HTTPException of
\* line 114 what the installed framework's class gives, "<status>: <detail>"
\* or the empty string.  A text is a record of the pieces of its f-string.
exception_str(attempt, framework_str) ==
    IF attempt.raised # "HTTPException" THEN attempt.message
    ELSE IF framework_str = "status_and_detail"
    THEN [status |-> attempt.status_code, text |-> attempt.message.text,
          mode |-> attempt.message.mode]
    ELSE [text |-> ""]

\* main.py:120-128: the response, or the except clause: every Exception of
\* the try block, the HTTPException of line 114 included, becomes a 500
endpoint_response(attempt, framework_str) ==
    IF attempt.raised = None THEN [status_code |-> 200, body |-> attempt.body]
    ELSE [status_code |-> 500, detail |-> exception_str(attempt, framework_str)]

\* select_tests_endpoint
select_tests_endpoint(mode_env, backend_env, response, framework_str, changedFiles, callGraph, allowedTests, max_tests, seed) ==
    endpoint_response(endpoint_attempt(mode_env, backend_env, response, changedFiles,
                                       callGraph, allowedTests, max_tests, seed),
                      framework_str)

----------------------------------------------------------------------------
(* Reverse reachability, stated on the edge list itself (not on the BFS):  *)
(* RevReach(E, T, k) is the set of nodes from which some element of T is   *)
(* reached by following at most k caller->callee edges of E.               *)

RECURSIVE RevReach(_, _, _)
RevReach(E, T, k) ==
    IF k <= 0 THEN T
    ELSE LET R == T \cup {e.caller : e \in {x \in Range(E) : x.callee \in T}}
         IN  IF R = T THEN T ELSE RevReach(E, R, k - 1)

\* the least k with n in RevReach(E, T, k), for n in RevReach(E, T, bound)
MinDist(E, T, n, bound) ==
    CHOOSE k \in 0..bound :
        /\ n \in RevReach(E, T, k)
        /\ \A j \in 0..(k - 1) : n \notin RevReach(E, T, j)

----------------------------------------------------------------------------
(* SpecBFS: find_all_callers_bfs run step by step on every small graph *)

MaxBfsEdges == 3
MaxBfsDepth == 2
MaxBfsStart == 2

BfsNodes == {S_m, U_h, ATest_a, B_testB}

\* every edge between two different nodes, and two self-loops
BfsEdgePool ==
    {e \in {Edge(a, b) : a \in BfsNodes, b \in BfsNodes} : e.caller # e.callee}
        \cup {Edge(S_m, S_m), Edge(ATest_a, ATest_a)}

\* a set as a list, in some fixed order
RECURSIVE SeqOf(_)
SeqOf(S) ==
    IF S = {} THEN <<>>
    ELSE LET x == CHOOSE y \in S : TRUE IN <<x>> \o SeqOf(S \ {x})

BfsGraphs ==
    {SeqOf(es) : es \in {s \in SUBSET BfsEdgePool : Cardinality(s) <= MaxBfsEdges}}

NoCall == [fn |-> "none"]

InitBFS ==
    /\ call_graph \in BfsGraphs
    /\ start_methods \in {T \in SUBSET BfsNodes : Cardinality(T) <= MaxBfsStart}
    /\ max_depth \in 0..MaxBfsDepth
    /\ visited = {}
    /\ depth_map = [k \in {} |-> 0]
    /\ queue = <<>>
    /\ bfs_pc = "seed"
    /\ enqueued = <<>>
    /\ iterations = 0
    /\ changed_files = <<>>
    /\ allowed_tests = None
    /\ hashSeed = <<>>
    /\ pc = "start"
    /\ prev = NoCall
    /\ cur = NoCall

BfsState == [visited |-> visited, depth_map |-> depth_map, queue |-> queue]

BfsUnchangedRest ==
    UNCHANGED <<changed_files, call_graph, allowed_tests, hashSeed, pc, prev, cur,
                start_methods, max_depth>>

\* the methods of the queue entries appended by a step from queue q to queue q2,
\* where `kept` entries of q2 come from q
Appended(q2, kept) == [i \in 1..(Len(q2) - kept) |-> q2[kept + i][1]]

\* lines 56-65
BfsSeed ==
    /\ bfs_pc = "seed"
    /\ \E order \in Orders(start_methods) :
         LET st == bfs_seed(order)
         IN  /\ visited' = st.visited
             /\ depth_map' = st.depth_map
             /\ queue' = st.queue
             /\ enqueued' = enqueued \o Appended(st.queue, 0)
    /\ bfs_pc' = "loop"
    /\ UNCHANGED iterations
    /\ BfsUnchangedRest

\* lines 67-80: one iteration of `while queue`
BfsLoop ==
    /\ bfs_pc = "loop"
    /\ queue # <<>>
    /\ \E order \in Orders(get_callers(CallGraph(call_graph), bfs_pop(queue).method)) :
         LET st == bfs_iter(BfsState, max_depth, order)
         IN  /\ visited' = st.visited
             /\ depth_map' = st.depth_map
             /\ queue' = st.queue
             /\ enqueued' = enqueued \o Appended(st.queue, Len(queue) - 1)
    /\ bfs_pc' = "loop"
    /\ iterations' = iterations + 1
    /\ BfsUnchangedRest

\* line 82: the loop ends on an empty queue
BfsReturn ==
    /\ bfs_pc = "loop"
    /\ queue = <<>>
    /\ bfs_pc' = "done"
    /\ UNCHANGED <<visited, depth_map, queue, enqueued, iterations>>
    /\ BfsUnchangedRest

NextBFS == BfsSeed \/ BfsLoop \/ BfsReturn

SpecBFS == InitBFS /\ [][NextBFS]_vars

----------------------------------------------------------------------------
(* Claims about find_all_callers_bfs *)

\* C3: when find_all_callers_bfs(T, d) returns, its visited set is exactly the
\* set of nodes from which some element of T is reached by at most d
\* caller->callee edges of the edge list (sound, complete within the bound,
\* T included).
C3_VisitedIsBoundedReverseReach ==
    bfs_pc = "done" => visited = RevReach(call_graph, start_methods, max_depth)

\* a run where the bound cut the traversal short and callers were found
C3_Witness ==
    /\ bfs_pc = "done"
    /\ visited # start_methods
    /\ RevReach(call_graph, start_methods, max_depth + 1) # visited

\* C4: when find_all_callers_bfs returns, the domain of depth_map is the
\* visited set and every visited node is mapped to its minimum number of
\* reverse hops from the start set (0 for the start methods), which never
\* exceeds the bound.
C4_DepthMapIsMinimumDistance ==
    bfs_pc = "done" =>
        /\ DOMAIN depth_map = visited
        /\ \A n \in visited :
             /\ depth_map[n] <= max_depth
             /\ n \in RevReach(call_graph, start_methods, max_depth)
             /\ depth_map[n] = MinDist(call_graph, start_methods, n, max_depth)
             /\ (n \in start_methods => depth_map[n] = 0)

\* a run that recorded a node at depth 2 which also has a longer path
C4_Witness ==
    /\ bfs_pc = "done"
    /\ \E n \in visited : depth_map[n] = 2
    /\ \E e \in Range(call_graph) :
         e.caller \in visited /\ e.callee \in visited
         /\ depth_map[e.caller] <= depth_map[e.callee]

NoDuplicates(s) == \A i, j \in 1..Len(s) : i # j => s[i] # s[j]

\* every identifier the run can come across
BfsUniverse == start_methods \cup {e.caller : e \in Range(call_graph)}

\* the guard of one of the steps holds
BfsCanStep ==
    \/ bfs_pc = "seed" /\ Orders(start_methods) # {}
    \/ /\ bfs_pc = "loop" /\ queue # <<>>
       /\ Orders(get_callers(CallGraph(call_graph), bfs_pop(queue).method)) # {}
    \/ bfs_pc = "loop" /\ queue = <<>>

\* C5: the reverse BFS terminates on every finite edge list (cycles and
\* self-loops included) and no node is ever appended to the queue twice: the
\* appended nodes are pairwise distinct and are exactly the visited ones, each
\* loop iteration takes one of them off the queue, so the loop runs at most
\* once per identifier of the input, and the run is never stuck before it
\* returns.
C5_TerminatesEachNodeEnqueuedOnce ==
    /\ NoDuplicates(enqueued)
    /\ Range(enqueued) = visited
    /\ visited \subseteq BfsUniverse
    /\ iterations + Len(queue) = Len(enqueued)
    /\ iterations <= Cardinality(BfsUniverse)
    /\ (bfs_pc # "done" => BfsCanStep)
    /\ (bfs_pc = "done" => queue = <<>> /\ iterations = Cardinality(visited))

\* a finished run over a graph with a cycle through a visited node
C5_Witness ==
    /\ bfs_pc = "done"
    /\ \E e \in Range(call_graph) :
         /\ e.caller \in visited /\ e.callee \in visited
         /\ depth_map[e.caller] < depth_map[e.callee]
         /\ depth_map[e.callee] < max_depth

----------------------------------------------------------------------------
(* Spec: select_tests, called twice by one caller on one request payload.   *)
(* Init draws the payload; between the two calls the service process may    *)
(* have been replaced by a new one.                                         *)

MaxEdges == 2
MaxTestsCap == 3

\* changed files (schemas.py:27-42 as dicts)
FileS ==
    [touched_methods |-> <<[name |-> "m", fqn |-> S_m]>>,
     fully_qualified_class |-> <<"S">>, lang |-> "java", class_name |-> <<"S">>,
     hunks |-> <<[start |-> 10, end |-> 15]>>]
FileU ==
    [touched_methods |-> <<[name |-> "h", fqn |-> U_h]>>,
     fully_qualified_class |-> None, lang |-> None, class_name |-> None,
     hunks |-> <<[start |-> 1, end |-> 100], [start |-> 200, end |-> 199]>>]
FileTest ==
    [touched_methods |-> <<[name |-> "a", fqn |-> ATest_a]>>,
     hunks |-> <<[new_lines |-> 200]>>]
FileNoFqn ==
    [touched_methods |-> <<[name |-> "m", fqn |-> None], [name |-> "n", fqn |-> <<>>]>>,
     fully_qualified_class |-> <<"S">>, lang |-> "kotlin", class_name |-> <<"S">>,
     hunks |-> <<[start |-> 3, end |-> 4]>>]

ChangedFilesInputs ==
    {<<>>, <<FileNoFqn>>, <<FileS>>, <<FileTest, FileU>>}

AllowedTestsInputs ==
    {None, <<>>, <<ATest_a, B_testB, XTest_x>>}

EdgePool ==
    {Edge(ATest_a, S_m), Edge(B_testB, S_m), Edge(CSpec_c, S_m), Edge(U_h, S_m),
     Edge(S_m, U_h), Edge(CSpec_c, U_h), Edge(XTest_x, ATest_a), Edge(B_testB, S_init)}

\* K#k calls S#m, every longer K calls the next shorter one, and three tests
\* call into the chain at the depths AffectedMaxDepth - 1, AffectedMaxDepth and 10
ChainGraph ==
    <<Edge(ChainNode(1), S_m)>>
        \o [i \in 1..AffectedMaxDepth |-> Edge(ChainNode(i + 1), ChainNode(i))]
        \o <<Edge(ATest_a, ChainNode(AffectedMaxDepth - 1)),
             Edge(B_testB, ChainNode(AffectedMaxDepth)),
             Edge(CSpec_c, ChainNode(10))>>

CallGraphInputs ==
    {SeqOf(es) : es \in {x \in SUBSET EdgePool : Cardinality(x) <= MaxEdges}}
        \cup {<<Edge(ATest_a, S_m), Edge(B_testB, U_h), Edge(ATest_a, S_m),
                Edge(U_h, S_m), Edge(CSpec_c, B_testB)>>}

MaxTestsInputs == (-1)..MaxTestsCap

BfsIdle ==
    /\ start_methods = {}
    /\ max_depth = 0
    /\ visited = {}
    /\ depth_map = [k \in {} |-> 0]
    /\ queue = <<>>
    /\ bfs_pc = "idle"
    /\ enqueued = <<>>
    /\ iterations = 0

Init ==
    /\ \/ /\ changed_files \in ChangedFilesInputs
          /\ call_graph \in CallGraphInputs
          /\ allowed_tests \in AllowedTestsInputs
       \/ /\ changed_files = <<FileS>>
          /\ call_graph = ChainGraph
          /\ allowed_tests = None
    /\ hashSeed \in HashSeeds
    /\ pc = "start"
    /\ prev = NoCall
    /\ cur = NoCall
    /\ BfsIdle

BfsVars == <<start_methods, max_depth, visited, depth_map, queue, bfs_pc, enqueued,
             iterations>>

NextPc == IF pc = "start" THEN "called1" ELSE "called2"

\* one call of select_tests on the payload, and what the caller gets back
SelectTests(max_tests) ==
    /\ pc \in {"start", "called1"}
    /\ prev' = cur
    /\ cur' = [fn        |-> "select_tests",
               max_tests |-> max_tests,
               res       |-> select_tests(changed_files, call_graph, allowed_tests,
                                          max_tests, hashSeed)]
    /\ pc' = NextPc
    /\ UNCHANGED <<changed_files, call_graph, allowed_tests, hashSeed, BfsVars>>

\* the service is started anew (a CI job starts it per run): the new
\* interpreter process has a hash seed of its own
NewProcess ==
    /\ pc = "called1"
    /\ hashSeed' \in HashSeeds \ {hashSeed}
    /\ UNCHANGED <<changed_files, call_graph, allowed_tests, pc, prev, cur, BfsVars>>

Next ==
    \/ \E max_tests \in MaxTestsInputs : SelectTests(max_tests)
    \/ NewProcess

Spec == Init /\ [][Next]_vars

----------------------------------------------------------------------------
(* SpecHybrid: one caller calls select_tests and then select_tests_hybrid   *)
(* with the same arguments, in the same process.                            *)

\* the ways an exchange of ExternalLLMAdapter with its endpoint can end
ExternalResponses ==
    {[kind |-> "not_configured"],
     [kind |-> "request_exception", class |-> "Timeout"],
     [kind |-> "request_exception", class |-> "ConnectionError"],
     [kind |-> "http_error", status |-> "500"],
     [kind |-> "parse_failed"],
     [kind |-> "parsed", parsed |-> [selected_tests |-> <<B_testB>>]]}

LlmAdapterInputs ==
    {NoAdapter,
     [outcome |-> "not_four_parts"],
     [outcome      |-> "malformed_tests",
      explanations |-> NoExplanations,
      confidence   |-> 50,
      metadata     |-> [mode |-> "mock", error |-> <<>>]],
     [outcome      |-> "returns",
      tests        |-> <<XTest_x, ATest_a>>,
      explanations |-> [t \in {XTest_x, ATest_a} |-> <<"related by name">>],
      confidence   |-> 80,
      metadata     |-> [mode |-> "mock", error |-> <<>>]],
     [outcome      |-> "returns",
      tests        |-> <<XTest_x, XTest_x, ATest_a, CSpec_c>>,
      explanations |-> [t \in {ATest_a} |-> <<"covers the change">>],
      confidence   |-> 50,
      metadata     |-> [mode |-> "mock", error |-> <<>>]]}
        \cup {ExternalLLMAdapter_select(response) : response \in ExternalResponses}

\* one call of select_tests_hybrid with the arguments of the call before it
SelectTestsHybrid(llm_adapter) ==
    /\ pc = "called1"
    /\ cur.fn = "select_tests"
    /\ prev' = cur
    /\ cur' = [fn        |-> "select_tests_hybrid",
               max_tests |-> cur.max_tests,
               adapter   |-> llm_adapter,
               res       |-> select_tests_hybrid(changed_files, call_graph, allowed_tests,
                                                 cur.max_tests, llm_adapter, hashSeed)]
    /\ pc' = "called2"
    /\ UNCHANGED <<changed_files, call_graph, allowed_tests, hashSeed, BfsVars>>

NextHybrid ==
    \/ \E max_tests \in MaxTestsInputs : pc = "start" /\ SelectTests(max_tests)
    \/ \E llm_adapter \in LlmAdapterInputs : SelectTestsHybrid(llm_adapter)

SpecHybrid == Init /\ [][NextHybrid]_vars

----------------------------------------------------------------------------
(* Claims about select_tests and select_tests_hybrid *)

Touched == extract_touched_methods(changed_files)

\* the nodes within 15 reverse hops of a touched identifier
Reached15 == RevReach(call_graph, Touched, 15)

\* the affected tests as the specification describes them: test-classified,
\* within 15 reverse hops of a touched identifier, and allowed when
\* allowed_tests is given and not empty
AffectedExpected ==
    LET tests == {n \in Reached15 : is_test_method(n)}
    IN  IF Truthy(allowed_tests) THEN tests \cap Range(allowed_tests) ELSE tests

IsSelect(call) == call.fn = "select_tests"

\* C1: with max_tests >= 0, every identifier select_tests returns is within 15
\* reverse call-graph edges of a touched identifier (distance 0 counts) and,
\* when allowed_tests is given and not empty, is one of allowed_tests.
C1_SelectedReachableAndAllowed ==
    IsSelect(cur) /\ cur.max_tests >= 0 =>
        \A t \in Range(cur.res.selected_tests) :
            /\ t \in Reached15
            /\ (Truthy(allowed_tests) => t \in Range(allowed_tests))

\* a selection where allowed_tests kept a reached test out
C1_Witness ==
    /\ IsSelect(cur) /\ cur.max_tests >= 0
    /\ cur.res.selected_tests # <<>>
    /\ Truthy(allowed_tests)
    /\ \E n \in Reached15 : is_test_method(n) /\ n \notin Range(allowed_tests)

\* C2: with a touched identifier and max_tests at least the number of affected
\* tests, select_tests returns exactly the test-classified nodes within 15
\* reverse hops of a touched identifier, intersected with allowed_tests when
\* that is not empty and unfiltered when it is absent or empty.
C2_SelectedIsAffectedSet ==
    IsSelect(cur) /\ Touched # {} /\ cur.max_tests >= Cardinality(AffectedExpected) =>
        Range(cur.res.selected_tests) = AffectedExpected

\* the chain: the test 15 hops away is selected, the test 16 hops away is not
C2_Witness ==
    /\ IsSelect(cur) /\ cur.max_tests >= Cardinality(AffectedExpected)
    /\ call_graph = ChainGraph
    /\ ATest_a \in Range(cur.res.selected_tests)
    /\ B_testB \notin Range(cur.res.selected_tests)
    /\ B_testB \in RevReach(call_graph, Touched, 16)

\* C6: when no touched identifier can be extracted, select_tests returns an
\* empty list, confidence 0.1 and graph metadata with the reason
\* "no_touched_methods", whatever the other arguments are.
C6_NoTouchedMethodsResult ==
    IsSelect(cur) /\ Touched = {} =>
        /\ cur.res.selected_tests = <<>>
        /\ cur.res.confidence = 10
        /\ "reason" \in DOMAIN cur.res.metadata.graph_analysis
        /\ cur.res.metadata.graph_analysis.reason = "no_touched_methods"

\* no touched identifier although files changed, edges exist and tests are allowed
C6_Witness ==
    /\ IsSelect(cur) /\ Touched = {}
    /\ changed_files # <<>> /\ call_graph # <<>> /\ Truthy(allowed_tests)
    /\ cur.max_tests > 0

\* C7: two calls of select_tests with identical arguments return the same set
\* of tests and the same confidence, also when max_tests is smaller than the
\* number of affected tests.
C7_SameInputsSameSelection ==
    IsSelect(prev) /\ IsSelect(cur) /\ prev.max_tests = cur.max_tests =>
        /\ Range(prev.res.selected_tests) = Range(cur.res.selected_tests)
        /\ prev.res.confidence = cur.res.confidence

\* C8: for caps 0 <= m1 <= m2 and otherwise identical arguments, every test
\* select_tests returns with max_tests = m1 it also returns with max_tests = m2.
C8_MonotoneInMaxTests ==
    /\ (IsSelect(prev) /\ IsSelect(cur) /\ 0 <= prev.max_tests
            /\ prev.max_tests <= cur.max_tests =>
        Range(prev.res.selected_tests) \subseteq Range(cur.res.selected_tests))
    /\ (IsSelect(prev) /\ IsSelect(cur) /\ 0 <= cur.max_tests
            /\ cur.max_tests <= prev.max_tests =>
        Range(cur.res.selected_tests) \subseteq Range(prev.res.selected_tests))

\* C9: with max_tests >= 0 the list select_tests returns has no duplicates, holds
\* affected tests only and has exactly min(number of affected tests, max_tests)
\* elements (none when max_tests = 0).
C9_TruncatedToMaxTests ==
    IsSelect(cur) /\ cur.max_tests >= 0 =>
        /\ NoDuplicates(cur.res.selected_tests)
        /\ Range(cur.res.selected_tests) \subseteq AffectedExpected
        /\ Len(cur.res.selected_tests) = Min(Cardinality(AffectedExpected), cur.max_tests)
        /\ cur.res.metadata.reachability_stats.affected_tests
               = Cardinality(AffectedExpected)

\* the cap binds: more tests are affected than max_tests >= 1 lets through
C9_Witness ==
    /\ IsSelect(cur) /\ cur.max_tests >= 1
    /\ Len(cur.res.selected_tests) = cur.max_tests
    /\ Cardinality(AffectedExpected) > cur.max_tests

\* C10: select_tests_hybrid without an llm_adapter returns the selected-test
\* set, the explanation map and the confidence that select_tests returns for
\* the same arguments.
C10_HybridWithoutAdapterIsDeterministic ==
    /\ cur.fn = "select_tests_hybrid" /\ cur.adapter = NoAdapter
    /\ IsSelect(prev) /\ prev.max_tests = cur.max_tests
    =>
    /\ Range(cur.res.selected_tests) = Range(prev.res.selected_tests)
    /\ cur.res.explanations = prev.res.explanations
    /\ cur.res.confidence = <<prev.res.confidence, 1>>

----------------------------------------------------------------------------
(* Claims about the merge in select_tests_hybrid.  In SpecHybrid cur is the  *)
(* hybrid call, prev the select_tests call with the same arguments in the    *)
(* same process.                                                             *)

IsHybrid(call) == call.fn = "select_tests_hybrid"

\* the advisory source returned a four-part result with a list of tests
AdvisoryReturned == IsHybrid(cur) /\ cur.adapter.outcome = "returns"

DetCandidates == Range(prev.res.selected_tests)
AdvCandidates == Range(cur.adapter.tests)

\* the advisory-only tests, in the order the advisory source listed them
AdvOnlyList == SelectSeq(cur.adapter.tests, LAMBDA t : t \notin DetCandidates)

\* C11: when the advisory source returns a candidate list and the union of the
\* deterministic and the advisory candidates has at most max_tests elements,
\* the set of tests select_tests_hybrid returns is exactly that union.
C11_HybridReturnsUnion ==
    AdvisoryReturned /\ Cardinality(DetCandidates \cup AdvCandidates) <= cur.max_tests =>
        /\ cur.res.raised = None
        /\ Range(cur.res.selected_tests) = DetCandidates \cup AdvCandidates

\* both sources contribute a test the other one lacks, and the cap holds both
C11_Witness ==
    /\ AdvisoryReturned
    /\ Cardinality(DetCandidates \cup AdvCandidates) <= cur.max_tests
    /\ DetCandidates \ AdvCandidates # {}
    /\ AdvCandidates \ DetCandidates # {}
    /\ DetCandidates \cap AdvCandidates # {}

\* C12: when the union exceeds max_tests >= 0, select_tests_hybrid returns at
\* most max_tests tests (exactly max_tests list entries), all of them
\* candidates, every deterministic test among them, and an advisory-only test
\* only if every advisory-only test listed before it is returned too.
C12_TruncationKeepsDeterministicFirst ==
    /\ AdvisoryReturned /\ cur.max_tests >= 0
    /\ Cardinality(DetCandidates \cup AdvCandidates) > cur.max_tests
    =>
    /\ cur.res.raised = None
    /\ Len(cur.res.selected_tests) = cur.max_tests
    /\ Range(cur.res.selected_tests) \subseteq DetCandidates \cup AdvCandidates
    /\ DetCandidates \subseteq Range(cur.res.selected_tests)
    /\ \A j \in DOMAIN AdvOnlyList :
          AdvOnlyList[j] \in Range(cur.res.selected_tests) =>
              \A i \in 1..j : AdvOnlyList[i] \in Range(cur.res.selected_tests)

\* the cap cuts the advisory-only tests: one is returned next to a
\* deterministic test, a later one is dropped
C12_Witness ==
    /\ AdvisoryReturned /\ cur.max_tests >= 0
    /\ Cardinality(DetCandidates \cup AdvCandidates) > cur.max_tests
    /\ DetCandidates # {}
    /\ \E i, j \in DOMAIN AdvOnlyList :
          /\ i < j
          /\ AdvOnlyList[i] \in Range(cur.res.selected_tests)
          /\ AdvOnlyList[j] \notin Range(cur.res.selected_tests)

\* two fractions <<num, den>> that are the same number
FracEq(f, g) == f[1] * g[2] = g[1] * f[2]

\* the advisory source's select raised, or returned something that is not a
\* well-formed four-part result
AdvisoryFailed ==
    IsHybrid(cur) /\ cur.adapter.outcome \in {"raises", "not_four_parts", "malformed_tests"}

\* C13: if the advisory source's select fails in any way (it raises, or it
\* returns something that is not a well-formed four-part result),
\* select_tests_hybrid raises nothing and returns the test set, the
\* explanations and the confidence select_tests returns for the same inputs.
\* Stated for max_tests >= 0.
C13_AdvisoryFailureDegradesToDeterministic ==
    AdvisoryFailed /\ cur.max_tests >= 0 =>
        /\ cur.res.raised = None
        /\ Range(cur.res.selected_tests) = DetCandidates
        /\ cur.res.explanations = prev.res.explanations
        /\ FracEq(cur.res.confidence, <<prev.res.confidence, 1>>)

\* the advisory call ended in a timeout, a network error, an HTTP error or an
\* unparseable response
AdvisoryCallFailed ==
    /\ IsHybrid(cur)
    /\ cur.adapter.outcome = "returns"
    /\ cur.adapter.metadata.error # <<>>

\* C14: an advisory call that ends in a timeout, network error, HTTP error or
\* unparseable response gives the hybrid outcome of an advisory source that
\* returned nothing: the returned tests and the returned confidence equal the
\* deterministic result's, also where the deterministic confidence is the 0.1
\* floor.  Stated for max_tests >= 0.
C14_FailedAdvisoryCallIsLikeNothing ==
    AdvisoryCallFailed /\ cur.max_tests >= 0 =>
        /\ cur.res.raised = None
        /\ Range(cur.res.selected_tests) = DetCandidates
        /\ FracEq(cur.res.confidence, <<prev.res.confidence, 1>>)

\* min(1.0, max(det_confidence, advisory_confidence) + 0.2 * overlap_ratio) with
\* overlap_ratio = |det /\ adv| / max(|det \/ adv|, 1), as <<num, den>> in hundredths
ExpectedHybridConfidence ==
    LET union   == Max(Cardinality(DetCandidates \cup AdvCandidates), 1)
        overlap == Cardinality(DetCandidates \cap AdvCandidates)
        base    == Max(prev.res.confidence, cur.adapter.confidence)
    IN  <<Min(100 * union, base * union + 20 * overlap), union>>

\* C15: when an advisory source is supplied and returns a result, the
\* confidence of select_tests_hybrid is min(1.0, max(det_confidence,
\* advisory_confidence) + 0.2 * overlap_ratio) with overlap_ratio taken over
\* the two candidate sets, also when the returned list is truncated.  Stated
\* for max_tests >= 0.
C15_HybridConfidenceFormula ==
    AdvisoryReturned /\ cur.max_tests >= 0 =>
        FracEq(cur.res.confidence, ExpectedHybridConfidence)

\* text is prefix \o explanation for some non-empty prefix
IsPrefixed(text, explanation) ==
    /\ Len(text) > Len(explanation)
    /\ SubSeq(text, Len(text) - Len(explanation) + 1, Len(text)) = explanation

\* C16: in the explanation map of select_tests_hybrid a test explained only by
\* the deterministic source carries that explanation prefixed with the
\* source's name, a test explained only by the advisory source carries the
\* advisory explanation prefixed with "LLM: ", and a test explained by both
\* carries both explanations concatenated.
C16_MergedExplanationsArePrefixed ==
    AdvisoryReturned =>
        LET det == prev.res.explanations
            llm == cur.adapter.explanations
        IN  /\ DOMAIN cur.res.explanations = DOMAIN det \cup DOMAIN llm
            /\ \A t \in DOMAIN det \ DOMAIN llm :
                  IsPrefixed(cur.res.explanations[t], det[t])
            /\ \A t \in DOMAIN llm \ DOMAIN det :
                  cur.res.explanations[t] = <<"LLM: ">> \o llm[t]
            /\ \A t \in DOMAIN det \cap DOMAIN llm :
                  cur.res.explanations[t]
                      = <<"Deterministic: ">> \o det[t] \o <<"; LLM: ">> \o llm[t]

\* C17: when allowed_tests is supplied and not empty, every identifier in the
\* list select_tests_hybrid returns is one of allowed_tests, also the ones only
\* the advisory source contributed.
C17_HybridReturnsAllowedTestsOnly ==
    IsHybrid(cur) /\ Truthy(allowed_tests) /\ cur.res.raised = None =>
        Range(cur.res.selected_tests) \subseteq Range(allowed_tests)

----------------------------------------------------------------------------
(* SpecConfidence: _calculate_confidence on the arguments select_tests can   *)
(* pass it: any changed files, the metadata find_affected_tests builds and   *)
(* the length of the selected list.                                          *)

MaxConfFiles == 2

\* one changed file per kind of hunk list, with or without a touched method
ConfFiles ==
    {[path |-> "no hunks key", touched_methods |-> <<[name |-> "m", fqn |-> S_m]>>],
     [hunks |-> <<>>],
     [hunks |-> <<[start |-> 10, end |-> 15]>>,
      touched_methods |-> <<[name |-> "m", fqn |-> S_m]>>],
     [hunks |-> <<[start |-> 5, end |-> 1], [start |-> 9, end |-> 2]>>,
      touched_methods |-> <<[name |-> "h", fqn |-> U_h]>>],
     [hunks |-> <<[header |-> "@@"]>>,
      touched_methods |-> <<[name |-> "n", fqn |-> None]>>],
     [hunks |-> <<[old_lines |-> 44]>>,
      touched_methods |-> <<[name |-> "a", fqn |-> ATest_a]>>],
     [hunks |-> <<[start |-> 1, end |-> 100], [new_lines |-> 200]>>,
      touched_methods |-> <<[name |-> "h", fqn |-> U_h]>>]}

ConfChangedFilesInputs ==
    UNION {[1..n -> ConfFiles] : n \in 0..MaxConfFiles}

\* len(selected_tests): the edges of selection_factor's tiers
ConfSelectedCounts == {0, 1, 10, 11, 50, 51}

\* len(all_callers) - len(touched_methods): the nodes reached beyond the touched set
ConfReachedBeyond == {0, 1, 15, 60}

\* the metadata find_affected_tests can build for t touched methods (lines 156
\* and 175-182): all_callers holds the touched methods, the test methods are
\* among all_callers, max_depth_used is 0 exactly when nothing else was
\* reached and never exceeds the number of nodes reached or the depth bound
ConfMetadataInputs(t) ==
    IF t = 0 THEN {[reason |-> "no_touched_methods", touched_methods_count |-> 0]}
    ELSE {gm \in [touched_methods_count : {t},
                  total_callers_count   : {t + extra : extra \in ConfReachedBeyond},
                  test_methods_count    : ConfSelectedCounts,
                  max_depth_used        : 0..AffectedMaxDepth] :
            /\ gm.test_methods_count <= gm.total_callers_count
            /\ gm.max_depth_used <= gm.total_callers_count - t
            /\ (gm.max_depth_used = 0) = (gm.total_callers_count = t)}

InitConfidence ==
    /\ changed_files \in ConfChangedFilesInputs
    /\ call_graph = <<>>
    /\ allowed_tests = None
    /\ hashSeed = <<1, 2, 3>>
    /\ pc = "start"
    /\ prev = NoCall
    /\ cur = NoCall
    /\ BfsIdle

\* line 296: confidence = _calculate_confidence(changed_files, graph_metadata,
\* len(selected_tests)); the selected tests are among the test methods found
CalculateConfidence ==
    /\ pc = "start"
    /\ \E gm \in ConfMetadataInputs(Cardinality(extract_touched_methods(changed_files))) :
         \E selected_count \in ConfSelectedCounts :
              /\ selected_count <= Get(gm, "test_methods_count", 0)
              /\ cur' = [fn             |-> "_calculate_confidence",
                         graph_metadata |-> gm,
                         selected_count |-> selected_count,
                         res |-> calculate_confidence(changed_files, gm, selected_count)]
    /\ prev' = cur
    /\ pc' = "called1"
    /\ UNCHANGED <<changed_files, call_graph, allowed_tests, hashSeed, BfsVars>>

NextConfidence == CalculateConfidence

SpecConfidence == InitConfidence /\ [][NextConfidence]_vars

----------------------------------------------------------------------------
(* Claims about the confidence *)

IsConfidence(call) == call.fn = "_calculate_confidence"

\* the reverse BFS reached a node that is not a touched identifier
ReachedBeyondTouched(gm) ==
    Get(gm, "total_callers_count", 0) > Get(gm, "touched_methods_count", 0)

\* C18: the confidence select_tests returns is a whole number of hundredths
\* between 0 and 1, for any changed files and hunks (also hunks with end <
\* start or without line fields), any touched count, any selected count and
\* any traversal depth 0..15.
C18_ConfidenceInUnitRange ==
    IsConfidence(cur) => cur.res \in 0..100

\* a change whose hunks count a negative number of lines, scored at depth 15
\* with more than 50 tests selected
C18_Witness ==
    /\ IsConfidence(cur)
    /\ changed_lines(changed_files) < 0
    /\ cur.graph_metadata.touched_methods_count > 0
    /\ cur.graph_metadata.max_depth_used = 15
    /\ cur.selected_count > 50

\* C19: whenever at least one test is selected and the reverse BFS reached a
\* node outside the touched set, the confidence is at least 0.5, however large
\* the change, the selection or the traversal depth.
C19_ConfidenceFloor ==
    IsConfidence(cur) /\ cur.selected_count >= 1 /\ ReachedBeyondTouched(cur.graph_metadata)
        => cur.res >= 50

\* the weakest case: a change of several hundred lines, more than 50 tests
\* selected, depth 15
C19_Witness ==
    /\ IsConfidence(cur) /\ cur.selected_count > 50
    /\ ReachedBeyondTouched(cur.graph_metadata)
    /\ cur.graph_metadata.max_depth_used = 15
    /\ changed_lines(changed_files) >= 300
    /\ cur.res < 60

\* C20: with a non-empty touched set the confidence is round(min(1,
\* 0.4*coverage + 0.25*size + 0.2*selection + 0.15*depth), 2), raised to 0.5 by
\* the floor override of C19, where coverage is 0.7 if the reverse BFS reached
\* a node that is not a touched identifier and 0.3 if the reached set equals
\* the touched set.  A sum half-way between two hundredths may round either way.
C20_CoverageFactor ==
    IsConfidence(cur) /\ cur.graph_metadata.touched_methods_count > 0 =>
        LET gm       == cur.graph_metadata
            coverage == IF ReachedBeyondTouched(gm) THEN 700 ELSE 300
            n        == Max(changed_lines(changed_files), 1)
            sum      == 40 * coverage * n + 25 * size_factor_times_n(n)
                            + 20 * selection_factor(cur.selected_count) * n
                            + 15 * depth_factor(gm.max_depth_used) * n
            floored  == IF cur.selected_count >= 1 /\ ReachedBeyondTouched(gm)
                        THEN Max(sum, 50000 * n) ELSE sum
            capped   == Min(100000 * n, floored)
        IN  \E tieUp \in BOOLEAN : cur.res = round_hundredths(capped \div 500, 200 * n, tieUp)

----------------------------------------------------------------------------
(* SpecClassifier: CallGraph.is_test_method applied to one identifier.      *)
(* The identifiers are the concatenations of a few fragments, so that the   *)
(* marker words occur in either segment, in any case, split over fragment   *)
(* borders, and after a second '#'.                                         *)

MaxFragments == 4

Fragments ==
    {<<"T","e","s","t">>, <<"t","e","s","t">>, <<"t","E","S">>, <<"T">>,
     <<"S","p","e","c">>, <<"s","P","E">>, <<"C">>, <<"#">>, <<"x">>, <<".">>}

RECURSIVE Concat(_)
Concat(parts) == IF parts = <<>> THEN <<>> ELSE Head(parts) \o Concat(Tail(parts))

MethodInputs ==
    {Concat(parts) : parts \in UNION {[1..n -> Fragments] : n \in 0..MaxFragments}}

InitClassifier ==
    /\ changed_files = <<>>
    /\ call_graph = <<>>
    /\ allowed_tests = None
    /\ hashSeed = <<1, 2, 3>>
    /\ pc = "start"
    /\ prev = NoCall
    /\ cur = NoCall
    /\ BfsIdle

\* graph.is_test_method(method), as at line 166
IsTestMethod ==
    /\ pc = "start"
    /\ \E method \in MethodInputs :
         cur' = [fn     |-> "is_test_method",
                 method |-> method,
                 res    |-> is_test_method(method)]
    /\ prev' = cur
    /\ pc' = "called1"
    /\ UNCHANGED <<changed_files, call_graph, allowed_tests, hashSeed, BfsVars>>

NextClassifier == IsTestMethod

SpecClassifier == InitClassifier /\ [][NextClassifier]_vars

----------------------------------------------------------------------------
(* Claims about the classifier, the touch extractor and the call graph *)

IsClassify(call) == call.fn = "is_test_method"

\* c is the letter `lower` in either case
SameLetter(c, lower) ==
    \/ c = lower
    \/ <<c, lower>> \in {<<"T", "t">>, <<"E", "e">>, <<"S", "s">>,
                         <<"P", "p">>, <<"C", "c">>}

\* word occurs in s at offset k, case-insensitively
WordAt(s, k, word) ==
    /\ k + Len(word) <= Len(s)
    /\ \A j \in 1..Len(word) : SameLetter(s[k + j], word[j])

HasWord(s, word) == \E k \in 0..Len(s) : WordAt(s, k, word)

\* s has a '#', and around the first one the declaring-type segment holds
\* "test" or "spec" or the member segment starts with "test"
ClassifiesAsTest(s) ==
    \E i \in 1..Len(s) :
        /\ s[i] = "#"
        /\ \A j \in 1..(i - 1) : s[j] # "#"
        /\ \/ HasWord(SubSeq(s, 1, i - 1), <<"t","e","s","t">>)
           \/ HasWord(SubSeq(s, 1, i - 1), <<"s","p","e","c">>)
           \/ WordAt(SubSeq(s, i + 1, Len(s)), 0, <<"t","e","s","t">>)

\* C21: is_test_method(s) is true exactly when s has the separator '#' and,
\* split at the first '#', the declaring-type segment lower-cased contains
\* "test" or "spec" or the member segment lower-cased starts with "test"; an
\* empty identifier and one without '#' classify as false.
C21_ClassifierRule ==
    IsClassify(cur) =>
        /\ cur.res = ClassifiesAsTest(cur.method)
        /\ (cur.method = <<>> \/ "#" \notin Range(cur.method)) => cur.res = FALSE

\* an identifier whose member segment alone starts with "test", in mixed
\* case, classified as a test
C21_Witness ==
    /\ IsClassify(cur)
    /\ cur.method = <<"x", "#", "t", "E", "S", "T">>
    /\ cur.res = TRUE

----------------------------------------------------------------------------
(* SpecTouched: extract_touched_methods applied to a list of changed files.  *)
(* A changed file is a dict: a key may be missing (a caller's own dict) or   *)
(* hold None (ChangedFile.dict() in main.py:71).                             *)

MaxTouchedFiles == 2

Absent == "Absent"

P_S == <<"p", ".", "S">>                            \* a class in a package

\* a dict with the key only when a value was given
Entry(key, value) == IF value = Absent THEN <<>> ELSE key :> value

\* the values each key of a changed file is given
TouchedMethodsValues ==
    <<Absent,
      <<[name |-> "m", fqn |-> S_m]>>,
      <<[name |-> "n", fqn |-> None], [name |-> "o", fqn |-> <<>>],
        [name |-> "h", fqn |-> U_h], [name |-> "a"]>>>>
ClassValues == <<Absent, None, <<"S">>, P_S>>
LangValues == <<None, "java", "kotlin">>
ClassNameValues == <<Absent, None, <<"S">>>>

\* which value each key of one changed file takes
TouchedFileChoices ==
    (DOMAIN TouchedMethodsValues) \X (DOMAIN ClassValues) \X (DOMAIN LangValues)
        \X (DOMAIN ClassNameValues)

TouchedFile(choice) ==
    Entry("touched_methods", TouchedMethodsValues[choice[1]])
        @@ Entry("fully_qualified_class", ClassValues[choice[2]])
        @@ Entry("lang", LangValues[choice[3]])
        @@ Entry("class_name", ClassNameValues[choice[4]])

InitTouched ==
    /\ \E n \in 0..MaxTouchedFiles :
         \E choices \in [1..n -> TouchedFileChoices] :
             changed_files = [i \in 1..n |-> TouchedFile(choices[i])]
    /\ call_graph = <<>>
    /\ allowed_tests = None
    /\ hashSeed = <<1, 2, 3>>
    /\ pc = "start"
    /\ prev = NoCall
    /\ cur = NoCall
    /\ BfsIdle

\* touched_methods = extract_touched_methods(changed_files), as at line 152
ExtractTouchedMethods ==
    /\ pc = "start"
    /\ cur' = [fn  |-> "extract_touched_methods",
               res |-> extract_touched_methods(changed_files)]
    /\ prev' = cur
    /\ pc' = "called1"
    /\ UNCHANGED <<changed_files, call_graph, allowed_tests, hashSeed, BfsVars>>

NextTouched == ExtractTouchedMethods

SpecTouched == InitTouched /\ [][NextTouched]_vars

----------------------------------------------------------------------------
(* Claims about extract_touched_methods *)

IsExtract(call) == call.fn = "extract_touched_methods"

\* the part of a dotted type name after its last '.'
SimpleName(type) ==
    LET dots == {i \in 1..Len(type) : type[i] = "."}
        last == IF dots = {} THEN 0 ELSE CHOOSE i \in dots : \A j \in dots : j <= i
    IN  SubSeq(type, last + 1, Len(type))

HasValue(d, key) == key \in DOMAIN d /\ d[key] # None /\ d[key] # <<>>

\* the non-empty identifiers of the touched methods of cf
ExplicitTouched(cf) ==
    IF "touched_methods" \in DOMAIN cf
    THEN {cf.touched_methods[i].fqn :
            i \in {j \in DOMAIN cf.touched_methods : HasValue(cf.touched_methods[j], "fqn")}}
    ELSE {}

\* F#<init> and F#S for a java file whose declaring type F is known
SynthesizedTouched(cf) ==
    IF HasValue(cf, "fully_qualified_class") /\ "lang" \in DOMAIN cf /\ cf.lang = "java"
    THEN {cf.fully_qualified_class \o <<"#", "<", "i", "n", "i", "t", ">">>,
          cf.fully_qualified_class \o <<"#">> \o SimpleName(cf.fully_qualified_class)}
    ELSE {}

\* C22: extract_touched_methods returns exactly the non-empty identifiers of
\* all touched methods of all changed files plus, for each java file whose
\* declaring type F is known, F#<init> and F#S with S the simple name of F;
\* the empty set when no file contributes an identifier.
C22_TouchedSetRule ==
    IsExtract(cur) =>
        cur.res = UNION {ExplicitTouched(changed_files[i]) \cup
                             SynthesizedTouched(changed_files[i]) :
                         i \in DOMAIN changed_files}

----------------------------------------------------------------------------
(* SpecCallGraph: a CallGraph built from an edge list, then looked up for   *)
(* every identifier.  The edge lists repeat edges and hold self-loops.      *)

MaxGraphEdges == 3

GraphNodes == {S_m, U_h, ATest_a}

\* the identifiers looked up: the nodes and one that no edge mentions
LookupIds == GraphNodes \cup {XTest_x}

GraphEdgeLists ==
    UNION {[1..n -> {Edge(a, b) : a, b \in GraphNodes}] : n \in 0..MaxGraphEdges}

InitCallGraph ==
    /\ changed_files = <<>>
    /\ call_graph \in GraphEdgeLists
    /\ allowed_tests = None
    /\ hashSeed = <<1, 2, 3>>
    /\ pc = "start"
    /\ prev = NoCall
    /\ cur = NoCall
    /\ BfsIdle

\* graph = CallGraph(call_graph), then graph.get_callers(m) and
\* graph.get_callees(m) for every identifier m
NewCallGraph ==
    /\ pc = "start"
    /\ LET graph == CallGraph(call_graph)
       IN  cur' = [fn      |-> "CallGraph",
                   callers |-> [m \in LookupIds |-> get_callers(graph, m)],
                   callees |-> [m \in LookupIds |-> get_callees(graph, m)]]
    /\ prev' = cur
    /\ pc' = "called1"
    /\ UNCHANGED <<changed_files, call_graph, allowed_tests, hashSeed, BfsVars>>

NextCallGraph == NewCallGraph

SpecCallGraph == InitCallGraph /\ [][NextCallGraph]_vars

----------------------------------------------------------------------------
(* Claims about CallGraph *)

IsGraph(call) == call.fn = "CallGraph"

\* C23: b is in get_callees(a) iff a is in get_callers(b) iff the edge
\* (caller a, callee b) occurs in the edge list: no edge is dropped, a repeated
\* edge changes nothing, self-loops are kept, and with an empty edge list
\* every lookup returns the empty set.
C23_LookupsMatchEdgeList ==
    IsGraph(cur) =>
        /\ \A a, b \in LookupIds :
              /\ (b \in cur.callees[a]) = (a \in cur.callers[b])
              /\ (b \in cur.callees[a]) =
                    (\E i \in DOMAIN call_graph :
                        call_graph[i].caller = a /\ call_graph[i].callee = b)
        /\ call_graph = <<>> =>
              \A m \in LookupIds : cur.callers[m] = {} /\ cur.callees[m] = {}

\* a list with a repeated edge, a second callee of the same caller and a
\* self-loop, all of them found by the lookups
C23_Witness ==
    /\ IsGraph(cur)
    /\ call_graph = <<Edge(ATest_a, S_m), Edge(ATest_a, S_m), Edge(S_m, S_m)>>
    /\ cur.callers[S_m] = {ATest_a, S_m}
    /\ cur.callees[S_m] = {S_m}

----------------------------------------------------------------------------
(* Claims about the arguments and the explanations of select_tests *)

\* C24: a call of select_tests or select_tests_hybrid with a negative
\* max_tests is rejected with an error before any selection is computed; it
\* never returns a selection.
C24_NegativeMaxTestsRejected ==
    ((IsSelect(cur) \/ IsHybrid(cur)) /\ cur.max_tests < 0) =>
        "selected_tests" \notin DOMAIN cur.res

\* C25: the explanation map returned by select_tests has exactly one entry
\* for each selected test and none for any other identifier, also when the
\* call-graph edge list is empty.
C25_OneExplanationPerSelectedTest ==
    IsSelect(cur) =>
        DOMAIN cur.res.explanations = Range(cur.res.selected_tests)

\* C26: when the call-graph edge list is empty, select_tests returns an empty
\* selection, metadata carrying an explanatory reason, and the fixed low
\* confidence, whatever the changed files are.
C26_EmptyCallGraphResult ==
    (IsSelect(cur) /\ call_graph = <<>>) =>
        /\ cur.res.selected_tests = <<>>
        /\ \/ "reason" \in DOMAIN cur.res.metadata
           \/ "reason" \in DOMAIN cur.res.metadata.graph_analysis
        /\ cur.res.confidence = confidence_no_touched

----------------------------------------------------------------------------
(* SpecReach: the entry points that run the reverse BFS without an explicit *)
(* depth bound, on the payloads of Spec and on caller chains of every       *)
(* length up to one more than the bound find_affected_tests uses.           *)

\* K#k calls S#m and every longer K calls the next shorter one, n edges long
ChainPrefix(n) ==
    [i \in 1..n |-> IF i = 1 THEN Edge(ChainNode(1), S_m)
                    ELSE Edge(ChainNode(i), ChainNode(i - 1))]

ReachGraphInputs ==
    CallGraphInputs \cup {ChainPrefix(n) : n \in 0..(AffectedMaxDepth + 1)}

InitReach ==
    /\ changed_files \in ChangedFilesInputs
    /\ call_graph \in ReachGraphInputs
    /\ allowed_tests = None
    /\ hashSeed \in HashSeeds
    /\ pc = "start"
    /\ prev = NoCall
    /\ cur = NoCall
    /\ BfsIdle

\* build_reachability(changed_files, call_graph, jdeps_graph)
BuildReachability ==
    /\ pc = "start"
    /\ cur' = [fn  |-> "build_reachability",
               res |-> build_reachability(changed_files, call_graph, hashSeed)]
    /\ prev' = cur
    /\ pc' = "called1"
    /\ UNCHANGED <<changed_files, call_graph, allowed_tests, hashSeed, BfsVars>>

\* CallGraph(call_graph).find_all_callers_bfs(touched_methods)
FindAllCallersDefault ==
    /\ pc = "start"
    /\ cur' = [fn  |-> "find_all_callers_bfs",
               res |-> find_all_callers_bfs_default(
                           CallGraph(call_graph),
                           extract_touched_methods(changed_files), hashSeed)]
    /\ prev' = cur
    /\ pc' = "called1"
    /\ UNCHANGED <<changed_files, call_graph, allowed_tests, hashSeed, BfsVars>>

NextReach == BuildReachability \/ FindAllCallersDefault

SpecReach == InitReach /\ [][NextReach]_vars

----------------------------------------------------------------------------
(* Claims about the default depth bound *)

\* C27: the depth bound defaults to 15: find_all_callers_bfs called with its
\* default and build_reachability stop expanding at nodes of distance 15, so
\* they return the reached set that find_affected_tests computes for the
\* same touched set and edges.
C27_DefaultDepthBoundIs15 ==
    /\ cur.fn = "build_reachability" => cur.res.reached_methods = Reached15
    /\ cur.fn = "find_all_callers_bfs" => cur.res.visited = Reached15

----------------------------------------------------------------------------
(* Claims about the list and the explanation map of select_tests_hybrid *)

HybridReturned == IsHybrid(cur) /\ cur.res.raised = None

\* C29: the list returned by select_tests_hybrid never contains the same
\* test identifier twice, for every advisory candidate list (also one that
\* repeats an identifier) and every max_tests >= 0, whether or not the cap
\* binds.
C29_HybridListHasNoDuplicates ==
    (HybridReturned /\ cur.max_tests >= 0) =>
        \A i, j \in DOMAIN cur.res.selected_tests :
            i # j => cur.res.selected_tests[i] # cur.res.selected_tests[j]

\* C30: every key of the explanation map returned by select_tests_hybrid is
\* an identifier of the returned test list: nothing is explained that the
\* advisory source did not list or that the truncation cut off.
C30_HybridExplainsReturnedTestsOnly ==
    (HybridReturned /\ cur.max_tests >= 0) =>
        DOMAIN cur.res.explanations \subseteq Range(cur.res.selected_tests)

----------------------------------------------------------------------------
(* SpecEndpoint: one request to /select-tests, in a process whose           *)
(* environment holds LLM_MODE and HYBRID_LLM_BACKEND.                       *)

ModeInputs ==
    {ModeMock, ModeHybrid, ModeRemote, ModeOpenai, ModeOpenaiCompatible, ModeGemini,
     ModeGoogle, <<"M","o","c","k">>, <<"b","o","g","u","s">>, <<>>}

BackendInputs == {ModeMock, ModeOpenai, ModeGemini, <<"b","o","g","u","s">>}

FrameworkStrInputs == {"status_and_detail", "empty"}

\* SelectRequest: allowed_tests is a list (schemas.py:69)
InitEndpoint ==
    /\ changed_files \in ChangedFilesInputs
    /\ call_graph \in {g \in CallGraphInputs : Len(g) <= 1}
    /\ allowed_tests \in {<<>>, <<ATest_a, B_testB, XTest_x>>}
    /\ hashSeed = <<1, 2, 3>>
    /\ pc = "start"
    /\ prev = NoCall
    /\ cur = NoCall
    /\ BfsIdle

\* POST /select-tests
SelectTestsEndpoint ==
    /\ pc = "start"
    /\ \E mode_env \in ModeInputs, backend_env \in BackendInputs,
          response \in ExternalResponses, framework_str \in FrameworkStrInputs,
          max_tests \in MaxTestsInputs :
         cur' = [fn        |-> "select_tests_endpoint",
                 mode      |-> mode_env,
                 max_tests |-> max_tests,
                 res       |-> select_tests_endpoint(mode_env, backend_env, response,
                                                     framework_str, changed_files,
                                                     call_graph, allowed_tests,
                                                     max_tests, hashSeed)]
    /\ prev' = cur
    /\ pc' = "called1"
    /\ UNCHANGED <<changed_files, call_graph, allowed_tests, hashSeed, BfsVars>>

NextEndpoint == SelectTestsEndpoint

SpecEndpoint == InitEndpoint /\ [][NextEndpoint]_vars

----------------------------------------------------------------------------
(* Claims about the endpoint *)

IsEndpoint(call) == call.fn = "select_tests_endpoint"

SupportedModes ==
    {<<"m","o","c","k">>, <<"h","y","b","r","i","d">>, <<"r","e","m","o","t","e">>,
     <<"o","p","e","n","a","i">>,
     <<"o","p","e","n","a","i","-","c","o","m","p","a","t","i","b","l","e">>,
     <<"g","e","m","i","n","i">>, <<"g","o","o","g","l","e">>}

\* LLM_MODE is read case-insensitively
ModeIsSupported(mode_env) == Lower(mode_env) \in SupportedModes

\* the detail text holds the mode
DetailNames(detail, mode_env) ==
    "mode" \in DOMAIN detail /\ detail.mode = Lower(mode_env)

\* C28: a request while LLM_MODE is none of mock, hybrid, remote, openai,
\* openai-compatible, gemini, google ends with an HTTP 400 response whose
\* detail names the unsupported mode; status 500 is produced only for
\* failures of the selection itself.
C28_UnsupportedModeIs400 ==
    IsEndpoint(cur) =>
        /\ ~ModeIsSupported(cur.mode) =>
              /\ cur.res.status_code = 400
              /\ DetailNames(cur.res.detail, cur.mode)
        /\ cur.res.status_code = 500 => ModeIsSupported(cur.mode)

====
